---- MODULE Spec2Model ----
(***************************************************************************)
(* Model of the AI proxy of the repository: the provider adapters          *)
(* (aiProviders) and the POST /generate handler of the AI router.          *)
(*                                                                         *)
(* One behaviour is one dispatch of POST /generate.  Steps are the         *)
(* run-to-completion segments of the async handler: from its entry, or     *)
(* from the settlement of the awaited vendor call, up to the next awaited  *)
(* vendor call or to the response.                                         *)
(***************************************************************************)
EXTENDS Integers, Sequences, FiniteSets, TLC

VARIABLES
    body,            \* req.body: [prompt, provider], JavaScript values
    env,             \* process.env restricted to the six credential names
    pc,              \* "received" | "await" | "done"
    providersToTry,  \* the candidate list of the dispatch
    idx,             \* position of the provider loop in providersToTry
    cur,             \* name of the adapter that is running ("" if none)
    mi,              \* position of the running adapter in its modelsToTry
    inflight,        \* outbound vendor calls issued and not yet settled
    result,          \* the handler's `result`
    lastError,       \* the handler's `lastError`
    responses,       \* responses sent on `res`, in order
    invoked,         \* history: adapter invocations [provider, apiKey]
    calls,           \* history: outbound vendor calls [provider, model]
    answered,        \* history: the vendor reply the adapter returned on
    \* one adapter called on its own
    aProvider,       \* the adapter
    aState,          \* "off" | "idle" | "awaiting" | "returned" | "threw"
    aPos,            \* position of the adapter in its modelsToTry
    aRequests,       \* history: the models requested, in order
    aReplies,        \* history: the vendor's replies, in order
    aValue,          \* what the adapter returned, or the message it threw
    \* the client, generatePostWithGemini
    inFlight,        \* generatePostWithGemini._inFlight
    cState,          \* per client call: "idle" | "fetching" | "reading" |
                     \*                  "resolved" | "rejected"
    cResponse,       \* per client call: the response of its fetch while
                     \*                  its body is read
    cValue,          \* per client call: the text it resolved with or the
                     \*                  message it rejected with
    fetches          \* history: the client calls that issued a fetch

serverVars == <<body, env, pc, providersToTry, idx, cur, mi, inflight, result,
                lastError, responses, invoked, calls, answered>>

adapterVars == <<aProvider, aState, aPos, aRequests, aReplies, aValue>>

clientVars == <<inFlight, cState, cResponse, cValue, fetches>>

vars == <<serverVars, adapterVars, clientVars>>

(***************************************************************************)
(* Bounds of the model.                                                    *)
(***************************************************************************)
\* most credential names set to the empty string in one environment
MaxEmptyNames == 1

\* the number of calls of generatePostWithGemini the page makes
MaxClientCalls == 3

(***************************************************************************)
(* JavaScript values: undefined, null, strings and numbers.                *)
(***************************************************************************)
Undefined == [t |-> "undefined"]
Null == [t |-> "null"]
Str(s) == [t |-> "string", s |-> s]
Num(n) == [t |-> "number", n |-> n]

IsString(v) == v.t = "string"

\* ToBoolean: what `!v`, `v && ..` and `v || ..` test
Truthy(v) ==
    CASE v.t = "string" -> v.s # ""
      [] v.t = "number" -> v.n # 0
      [] v.t = "object" -> TRUE
      [] OTHER -> FALSE

\* a || b
Or(a, b) == IF Truthy(a) THEN a ELSE b

(***************************************************************************)
(* String.prototype methods on TLA+ strings.                               *)
(***************************************************************************)
CharAt(s, i) == SubSeq(s, i, i)

\* s.includes(sub)
Includes(s, sub) ==
    \E i \in 1..(Len(s) - Len(sub) + 1) : SubSeq(s, i, i + Len(sub) - 1) = sub

WhiteSpace == {" ", "\t", "\n", "\r"}

RECURSIVE TrimStart(_)
TrimStart(s) ==
    IF Len(s) > 0 /\ CharAt(s, 1) \in WhiteSpace
    THEN TrimStart(SubSeq(s, 2, Len(s)))
    ELSE s

RECURSIVE TrimEnd(_)
TrimEnd(s) ==
    IF Len(s) > 0 /\ CharAt(s, Len(s)) \in WhiteSpace
    THEN TrimEnd(SubSeq(s, 1, Len(s) - 1))
    ELSE s

\* s.trim()
Trim(s) == TrimEnd(TrimStart(s))

UpperCase == "ABCDEFGHIJKLMNOPQRSTUVWXYZ"
LowerCase == "abcdefghijklmnopqrstuvwxyz"

LowerChar(c) ==
    IF \E i \in 1..Len(UpperCase) : CharAt(UpperCase, i) = c
    THEN CharAt(LowerCase, CHOOSE i \in 1..Len(UpperCase) : CharAt(UpperCase, i) = c)
    ELSE c

RECURSIVE ToLowerCase(_)
\* s.toLowerCase()
ToLowerCase(s) ==
    IF s = "" THEN ""
    ELSE LowerChar(CharAt(s, 1)) \o ToLowerCase(SubSeq(s, 2, Len(s)))

(***************************************************************************)
(* What an adapter does with one settled model attempt.                    *)
(***************************************************************************)
Return(text, model, provider) ==
    [kind |-> "return", text |-> text, model |-> model, provider |-> provider]
Continue == [kind |-> "continue"]
Throw(message) == [kind |-> "throw", message |-> message]

\* `text && text.trim()`
HasText(text) == Truthy(text) /\ IsString(text) /\ Trim(text.s) # ""

GroqModels ==
    <<"llama-3.1-8b-instant", "llama-3.1-70b-versatile",
      "llama-3-8b-8192", "mixtral-8x7b-32768">>

GeminiModels ==
    <<"gemini-2.0-flash-exp", "gemini-1.5-flash-latest", "gemini-1.5-pro-latest",
      "gemini-1.5-flash", "gemini-1.5-pro", "gemini-pro">>

OpenaiModels == <<"gpt-4", "gpt-3.5-turbo", "gpt-4-turbo-preview">>

ClaudeModels == <<"claude-3-haiku-20240307">>

\* body of the groq model loop: reply is the settled chat.completions.create
GroqAttempt(modelName, reply) ==
    IF reply.kind = "reject"
    THEN IF Includes(reply.message, "model") \/ Includes(reply.message, "404")
         THEN Continue
         ELSE Throw(reply.message)
    ELSE IF HasText(reply.content)
         THEN Return(Trim(reply.content.s), modelName, "groq")
         ELSE Continue

\* body of the gemini model loop: every error is swallowed
GeminiAttempt(modelName, reply) ==
    IF reply.kind = "reject"
    THEN Continue
    ELSE IF HasText(reply.content)
         THEN Return(Trim(reply.content.s), modelName, "gemini")
         ELSE Continue

\* mutant: the catch clause rethrows every error
OpenaiCatchRethrows(message) == Throw(message)

\* the catch clause of the openai model loop
OpenaiCatch(message) ==
    IF ~Includes(message, "model_not_found") /\ ~Includes(message, "404")
    THEN Throw(message)
    ELSE Continue

\* response.ok
Ok(status) == status \in 200..299

\* body of the openai model loop: reply is the settled fetch and its JSON body
OpenaiAttempt(modelName, reply) ==
    IF reply.kind = "reject" THEN OpenaiCatch(reply.message)
    ELSE IF ~Ok(reply.status)
         THEN IF reply.body.code = Str("model_not_found") \/ reply.status = 404
              THEN Continue
              ELSE OpenaiCatch(Or(reply.body.message, Str("OpenAI API error")).s)
         ELSE IF HasText(reply.body.content)
              THEN Return(Trim(reply.body.content.s), modelName, "openai")
              ELSE Continue

\* mutant: the claude adapter without `if (!text) throw`
ClaudeAttemptNoTextCheck(modelName, reply) ==
    IF reply.kind = "reject" THEN Throw(reply.message)
    ELSE IF ~Ok(reply.status)
         THEN Throw(Or(reply.body.message, Str("Claude API error")).s)
         ELSE Return(IF IsString(reply.body.content)
                     THEN Trim(reply.body.content.s) ELSE "",
                     modelName, "claude")

\* the claude adapter: one attempt, no model loop
ClaudeAttempt(modelName, reply) ==
    IF reply.kind = "reject" THEN Throw(reply.message)
    ELSE IF ~Ok(reply.status)
         THEN Throw(Or(reply.body.message, Str("Claude API error")).s)
         ELSE IF ~Truthy(reply.body.content)
              THEN Throw("No response from Claude")
              ELSE Return(Trim(reply.body.content.s), modelName, "claude")

(***************************************************************************)
(* The adapters: the model loop around the attempts.                       *)
(***************************************************************************)
Adapters == {"groq", "openai", "gemini", "claude"}

\* modelsToTry of each adapter
ModelsToTry(provider) ==
    CASE provider = "groq" -> GroqModels
      [] provider = "openai" -> OpenaiModels
      [] provider = "gemini" -> GeminiModels
      [] provider = "claude" -> ClaudeModels

Attempt(provider, modelName, reply) ==
    CASE provider = "groq" -> GroqAttempt(modelName, reply)
      [] provider = "openai" -> OpenaiAttempt(modelName, reply)
      [] provider = "gemini" -> GeminiAttempt(modelName, reply)
      [] provider = "claude" -> ClaudeAttempt(modelName, reply)

\* mutant: one message for every vendor
AllFailedMessageGeneric(provider) == "All models failed"

\* the error thrown after the model loop
AllFailedMessage(provider) ==
    CASE provider = "groq" -> "All Groq models failed"
      [] provider = "openai" -> "All OpenAI models failed"
      [] provider = "gemini" -> "All Gemini models failed"

\* What the adapter does when attempt m settles with reply: it returns, it
\* throws, or it requests its next model ("next").
AdapterStep(provider, m, reply) ==
    LET out == Attempt(provider, ModelsToTry(provider)[m], reply) IN
    IF out.kind = "continue"
    THEN IF m < Len(ModelsToTry(provider))
         THEN [kind |-> "next"]
         ELSE Throw(AllFailedMessage(provider))
    ELSE out

(***************************************************************************)
(* The handler of POST /generate.                                          *)
(***************************************************************************)
\* mutant: the chain with its first two vendors exchanged
PriorityChainOpenaiFirst == <<"openai", "groq", "gemini", "claude">>

PriorityChain == <<"groq", "openai", "gemini", "claude">>

\* `const { prompt, provider = 'auto' } = req.body`
ProviderOf(b) == IF b.provider = Undefined THEN Str("auto") ELSE b.provider

\* mutant: `if (prompt === undefined)`
MissingPromptUndefinedOnly(prompt) == prompt = Undefined

\* `if (!prompt)`
MissingPrompt(prompt) == ~Truthy(prompt)

\* mutant: a preference that names no vendor falls back to the chain
SelectProvidersFallback(provider) ==
    IF provider = Str("auto") \/ ~Truthy(provider)
    THEN [kind |-> "list", list |-> PriorityChain]
    ELSE IF ~IsString(provider)
         THEN Throw("provider.toLowerCase is not a function")
         ELSE IF ToLowerCase(provider.s) \in Adapters
              THEN [kind |-> "list", list |-> <<ToLowerCase(provider.s)>>]
              ELSE [kind |-> "list", list |-> PriorityChain]

\* mutant: the named vendor is tried first and the chain after it
SelectProvidersThenChain(provider) ==
    IF provider = Str("auto") \/ ~Truthy(provider)
    THEN [kind |-> "list", list |-> PriorityChain]
    ELSE IF ~IsString(provider)
         THEN Throw("provider.toLowerCase is not a function")
         ELSE [kind |-> "list", list |-> <<ToLowerCase(provider.s)>> \o PriorityChain]

\* mutant: the sentinel is compared after lowercasing
SelectProvidersAnyCase(provider) ==
    IF ~Truthy(provider)
    THEN [kind |-> "list", list |-> PriorityChain]
    ELSE IF ~IsString(provider)
         THEN Throw("provider.toLowerCase is not a function")
         ELSE IF ToLowerCase(provider.s) = "auto"
              THEN [kind |-> "list", list |-> PriorityChain]
              ELSE [kind |-> "list", list |-> <<ToLowerCase(provider.s)>>]

\* providersToTry, or the TypeError of provider.toLowerCase
SelectProviders(provider) ==
    IF provider = Str("auto") \/ ~Truthy(provider)
    THEN [kind |-> "list", list |-> PriorityChain]
    ELSE IF ~IsString(provider)
         THEN Throw("provider.toLowerCase is not a function")
         ELSE [kind |-> "list", list |-> <<ToLowerCase(provider.s)>>]

\* mutant: the second name is read only when the first is unset (`??`)
ApiKeyNullish(providerName, e) ==
    CASE providerName = "groq" -> e["GROQ_API_KEY"]
      [] providerName = "openai" -> e["OPENAI_API_KEY"]
      [] providerName = "gemini" ->
            IF e["GEMINI_API_KEY"] # Undefined THEN e["GEMINI_API_KEY"]
            ELSE e["BARD_API_KEY"]
      [] providerName = "claude" ->
            IF e["ANTHROPIC_API_KEY"] # Undefined THEN e["ANTHROPIC_API_KEY"]
            ELSE e["CLAUDE_API_KEY"]
      [] OTHER -> [t |-> "default"]

\* the switch on providerName: the credential, or "default" for no case
ApiKey(providerName, e) ==
    CASE providerName = "groq" -> e["GROQ_API_KEY"]
      [] providerName = "openai" -> e["OPENAI_API_KEY"]
      [] providerName = "gemini" -> Or(e["GEMINI_API_KEY"], e["BARD_API_KEY"])
      [] providerName = "claude" -> Or(e["ANTHROPIC_API_KEY"], e["CLAUDE_API_KEY"])
      [] OTHER -> [t |-> "default"]

\* mutant: the iteration without `if (!apiKey) continue`
CandidateNoKeyCheck(providerName, e) ==
    LET apiKey == ApiKey(providerName, e) IN
    IF apiKey.t = "default" THEN "continue"
    ELSE IF providerName \in Adapters THEN "call"
    ELSE "continue"

\* one iteration of the provider loop, up to the call of the adapter
Candidate(providerName, e) ==
    LET apiKey == ApiKey(providerName, e) IN
    IF apiKey.t = "default" THEN "continue"
    ELSE IF ~Truthy(apiKey) THEN "continue"
    ELSE IF providerName \in Adapters THEN "call"
    ELSE "continue"

RECURSIVE TryProviders(_, _, _)
\* The provider loop from position i on, up to its first adapter call: the
\* position of the candidate whose adapter is called, or the end of the list.
TryProviders(list, i, e) ==
    IF i > Len(list) THEN [kind |-> "exhausted", idx |-> i]
    ELSE IF Candidate(list[i], e) = "call"
         THEN [kind |-> "call", idx |-> i, apiKey |-> ApiKey(list[i], e)]
         ELSE TryProviders(list, i + 1, e)

FailureText(err) ==
    "Failed to generate content. Error: "
    \o Or(err, Str("All providers failed")).s
    \o ". Please ensure at least one AI API key is configured in your .env file (GROQ_API_KEY, OPENAI_API_KEY, GEMINI_API_KEY, or ANTHROPIC_API_KEY)."

\* the success envelope
Envelope(res) ==
    [candidates |-> <<[content |-> [parts |-> <<[text |-> res.text]>>]]>>,
     provider |-> res.provider,
     model |-> res.model]

\* res.status(status).json(b)
Send(status, b) ==
    /\ responses' = Append(responses, [status |-> status, body |-> b])
    /\ pc' = "done"

\* mutant: the exhaustion failure is sent without `return`, so the handler
\* goes on to read result.text, throws, and the outermost catch sends again
FinishNoReturn(res, err) ==
    IF ~Truthy(res)
    THEN /\ responses' = responses \o
                <<[status |-> 500, body |-> [error |-> FailureText(err)]],
                  [status |-> 500,
                   body |-> [error |-> "Cannot read properties of null"]]>>
         /\ pc' = "done"
    ELSE Send(200, Envelope(res))

\* after the provider loop: the exhaustion failure or the success response
Finish(res, err) ==
    IF ~Truthy(res)
    THEN Send(500, [error |-> FailureText(err)])
    ELSE Send(200, Envelope(res))

\* mutant: without the outermost catch the error leaves the handler and no
\* response is sent
UnexpectedEscapes(message) ==
    /\ pc' = "done"
    /\ UNCHANGED responses

\* the outermost catch
Unexpected(message) ==
    Send(500, [error |-> Or(Str(message), Str("AI proxy error")).s])

Call(provider, m) == [provider |-> provider, model |-> ModelsToTry(provider)[m]]

\* The provider loop from position i on with lastError err and result res,
\* while the calls of `pending` are outstanding: it calls the next adapter that
\* has a credential, which issues its first request, or it ends and the
\* handler responds.
Loop(list, i, err, pending, res) ==
    LET nx == TryProviders(list, i, env) IN
    /\ idx' = nx.idx
    /\ lastError' = err
    /\ result' = res
    /\ IF nx.kind = "call"
       THEN /\ cur' = list[nx.idx]
            /\ mi' = 1
            /\ invoked' = Append(invoked, [provider |-> list[nx.idx], apiKey |-> nx.apiKey])
            /\ inflight' = pending \cup {Call(list[nx.idx], 1)}
            /\ calls' = Append(calls, Call(list[nx.idx], 1))
            /\ pc' = "await"
            /\ UNCHANGED responses
       ELSE /\ cur' = ""
            /\ mi' = 0
            /\ inflight' = pending
            /\ Finish(res, err)
            /\ UNCHANGED <<invoked, calls>>

\* mutant: `result = await ...` without `break`
OnReturnNoBreak(res, text, pending) ==
    /\ answered' = [t |-> "object", provider |-> cur,
                    model |-> ModelsToTry(cur)[mi], text |-> text]
    /\ Loop(providersToTry, idx + 1, lastError, pending,
            [t |-> "object", text |-> res.text, model |-> res.model,
             provider |-> res.provider])

\* the adapter returned res on a reply holding text: `result = await ...; break`
OnReturn(res, text, pending) ==
    /\ result' = [t |-> "object", text |-> res.text, model |-> res.model,
                  provider |-> res.provider]
    /\ answered' = [t |-> "object", provider |-> cur,
                    model |-> ModelsToTry(cur)[mi], text |-> text]
    /\ inflight' = pending
    /\ Finish(result', lastError)
    /\ UNCHANGED <<idx, cur, mi, lastError, invoked, calls>>

\* mutant: the catch clause ends the provider loop
OnThrowAbort(message, pending) ==
    /\ Loop(providersToTry, Len(providersToTry) + 1, Str(message), pending, result)
    /\ UNCHANGED answered

\* mutant: the catch clause does not record the message
OnThrowForget(message, pending) ==
    /\ Loop(providersToTry, idx + 1, lastError, pending, result)
    /\ UNCHANGED answered

\* the adapter threw: `lastError = providerErr.message; continue`
OnThrow(message, pending) ==
    /\ Loop(providersToTry, idx + 1, Str(message), pending, result)
    /\ UNCHANGED answered

\* mutant: the adapter requests the same model again
OnNextRetry(pending) ==
    /\ mi' = mi
    /\ inflight' = pending \cup {Call(cur, mi)}
    /\ calls' = Append(calls, Call(cur, mi))
    /\ UNCHANGED <<pc, idx, cur, result, lastError, responses, invoked, answered>>

\* mutant: the adapter goes back to its first model
OnNextFirstModel(pending) ==
    /\ mi' = 1
    /\ inflight' = pending \cup {Call(cur, 1)}
    /\ calls' = Append(calls, Call(cur, 1))
    /\ UNCHANGED <<pc, idx, cur, result, lastError, responses, invoked, answered>>

\* the adapter requests its next model
OnNext(pending) ==
    /\ mi' = mi + 1
    /\ inflight' = pending \cup {Call(cur, mi + 1)}
    /\ calls' = Append(calls, Call(cur, mi + 1))
    /\ UNCHANGED <<pc, idx, cur, result, lastError, responses, invoked, answered>>

(***************************************************************************)
(* The client: generatePostWithGemini, which posts to /api/ai/generate.    *)
(* A client call runs in three segments: from its entry to the fetch, from *)
(* the settling of the fetch to the reading of the body, and from there to *)
(* its end.  `c` is the number of the call.                                *)
(***************************************************************************)
\* `provider = 'groq'` and JSON.stringify({ prompt, provider })
ClientRequestBody(prompt, provider) ==
    [prompt |-> prompt,
     provider |-> IF provider = Undefined THEN Str("groq") ELSE provider]

\* a response body that is JSON, by the two members the client reads:
\* `.error` and `?.candidates?.[0]?.content?.parts?.[0]?.text`
JsonText(error, text) ==
    [json |-> TRUE, raw |-> "", error |-> error, text |-> text]

\* a response body that is no JSON
RawText(raw) ==
    [json |-> FALSE, raw |-> raw, error |-> Undefined, text |-> Undefined]

PleaseWait == "Please wait for the current AI request to finish."

\* mutant: the flag is never consulted
InFlightGuardOff(flag) == FALSE

\* `if (generatePostWithGemini._inFlight)`
InFlightGuard(flag) == flag

\* the message of the TypeError `prompt.substring(0, 50)` raises
SubstringError(prompt) ==
    IF prompt \in {Undefined, Null}
    THEN "Cannot read properties of " \o prompt.t \o " (reading 'substring')"
    ELSE "prompt.substring is not a function"

\* mutant: the refusal is thrown inside the try block, so finally clears
\* the flag
ClientRefuseClearsFlag(c) ==
    /\ cState' = [cState EXCEPT ![c] = "rejected"]
    /\ cValue' = [cValue EXCEPT ![c] = PleaseWait]
    /\ inFlight' = FALSE

\* the throw before the try block: the promise rejects, the flag is left
ClientRefuse(c) ==
    /\ cState' = [cState EXCEPT ![c] = "rejected"]
    /\ cValue' = [cValue EXCEPT ![c] = PleaseWait]
    /\ UNCHANGED inFlight

\* mutant: an error leaves the flag set
ClientThrowKeepsFlag(c, message) ==
    /\ cState' = [cState EXCEPT ![c] = "rejected"]
    /\ cValue' = [cValue EXCEPT ![c] = message]
    /\ UNCHANGED inFlight

\* a throw inside the try block: catch rethrows, finally clears the flag
ClientThrow(c, message) ==
    /\ cState' = [cState EXCEPT ![c] = "rejected"]
    /\ cValue' = [cValue EXCEPT ![c] = message]
    /\ inFlight' = FALSE

\* `return text.trim()`, and finally clears the flag
ClientReturn(c, text) ==
    /\ cState' = [cState EXCEPT ![c] = "resolved"]
    /\ cValue' = [cValue EXCEPT ![c] = Trim(text)]
    /\ inFlight' = FALSE

\* the message for a response that is not ok
ErrorMessage(response) ==
    LET errorMessage ==
            IF response.text.json
            THEN Or(response.text.error, Str("Failed to generate content"))
            ELSE Or(Str(response.text.raw),
                    Str("HTTP " \o ToString(response.status) \o ": "
                        \o response.statusText))
    IN  IF response.status = 404
        THEN "AI endpoint not found. Please check if the server is running and the route is correct."
        ELSE IF response.status = 500
             THEN Or(errorMessage,
                     Str("Server error. Please check server logs for details.")).s
             ELSE errorMessage.s

\* from the entry of the call to its fetch
ClientEnter(c, prompt, provider) ==
    IF InFlightGuard(inFlight)
    THEN /\ ClientRefuse(c)
         /\ UNCHANGED fetches
    ELSE IF ~IsString(prompt)
         THEN /\ ClientThrow(c, SubstringError(prompt))
              /\ UNCHANGED fetches
         ELSE /\ inFlight' = TRUE
              /\ cState' = [cState EXCEPT ![c] = "fetching"]
              /\ fetches' = Append(fetches,
                     [call |-> c, body |-> ClientRequestBody(prompt, provider)])
              /\ UNCHANGED cValue

\* the fetch settles: a rejection is rethrown as a network error, a
\* response is kept and its body is read
ClientFetched(c, reply) ==
    IF reply.kind = "reject"
    THEN /\ ClientThrow(c, "Network error: " \o reply.message
               \o ". Please check if the server is running on http://localhost:5000")
         /\ UNCHANGED cResponse
    ELSE /\ cState' = [cState EXCEPT ![c] = "reading"]
         /\ cResponse' = [cResponse EXCEPT ![c] = reply.response]
         /\ UNCHANGED <<cValue, inFlight>>

\* the body has been read: the rest of the try block
ClientRead(c, response) ==
    IF ~Ok(response.status)
    THEN ClientThrow(c, ErrorMessage(response))
    ELSE IF ~response.text.json
         THEN ClientThrow(c, "Invalid response from server")
         ELSE IF ~Truthy(response.text.text)
              THEN ClientThrow(c, "No text generated. Please try again.")
              ELSE ClientReturn(c, response.text.text.s)

(***************************************************************************)
(* Inputs: request bodies, environments and vendor replies.                *)
(***************************************************************************)
\* texts a vendor replies with: empty, white space only, and text without
\* and with white space around it
Texts == {"", " \n", "Hi", " Hi there\n"}

\* what a vendor puts where the text is expected
Contents == {Undefined} \cup {Str(s) : s \in Texts}

Prompts == {Undefined, Null, Str(""), Num(7), Str("Write a post")}

Preferences ==
    {Undefined, Null, Str(""), Num(1), Str("auto"), Str("AUTO"), Str("Auto"),
     Str("groq"), Str("GROQ"), Str("openai"), Str("Gemini"), Str("claude"),
     Str("bard")}

EnvNames ==
    {"GROQ_API_KEY", "OPENAI_API_KEY", "GEMINI_API_KEY", "BARD_API_KEY",
     "ANTHROPIC_API_KEY", "CLAUDE_API_KEY"}

\* a name is unset, set to the empty string or set to a secret of its own
EnvValue(name, how) ==
    CASE how = "unset" -> Undefined
      [] how = "empty" -> Str("")
      [] how = "secret" -> Str("secret:" \o name)

Environments ==
    {[n \in EnvNames |-> EnvValue(n, k[n])] :
        k \in {h \in [EnvNames -> {"unset", "empty", "secret"}] :
                  Cardinality({n \in EnvNames : h[n] = "empty"}) <= MaxEmptyNames}}

\* error messages of a rejected SDK call or fetch
RejectMessages ==
    {"Invalid API Key", "404 Not Found", "The model x does not exist",
     "Rate limit reached for model x"}

SdkReplies ==
    {[kind |-> "reject", message |-> m] : m \in RejectMessages}
    \cup {[kind |-> "resolve", content |-> c] : c \in Contents}

Statuses == {200, 401, 404}

\* parsed JSON bodies: an error object (error.code, error.message) or a
\* completion whose first choice or block holds content
Bodies ==
    {[code |-> c, message |-> m, content |-> Undefined] :
        c \in {Undefined, Str("model_not_found")},
        m \in {Undefined, Str("Incorrect API key provided"), Str("upstream 404"),
               Str("That model is currently overloaded")}}
    \cup {[code |-> Undefined, message |-> Undefined, content |-> c] : c \in Contents}

FetchReplies ==
    {[kind |-> "reject", message |-> m] : m \in {"fetch failed", "connect 404"}}
    \cup {[kind |-> "response", status |-> st, body |-> b] : st \in Statuses, b \in Bodies}

\* the text a reply holds
ReplyText(reply) ==
    IF "content" \in DOMAIN reply THEN reply.content ELSE reply.body.content

Replies(provider) ==
    IF provider \in {"groq", "gemini"} THEN SdkReplies ELSE FetchReplies

\* what the page passes to generatePostWithGemini
ClientPrompts == {Undefined, Str("Write a post")}

ClientProviders == {Undefined, Str("claude")}

\* the bodies a response to the client carries: the envelope with text,
\* with empty text and without text, an error message, and text that is
\* no JSON
ClientTexts ==
    {JsonText(Undefined, Str(" Hi there\n")), JsonText(Undefined, Str("")),
     JsonText(Undefined, Undefined),
     JsonText(Str("Missing prompt in request body"), Undefined),
     RawText(""), RawText("Bad Gateway")}

StatusText(status) ==
    CASE status = 200 -> "OK"
      [] status = 400 -> "Bad Request"
      [] status = 404 -> "Not Found"
      [] status = 500 -> "Internal Server Error"

ClientStatuses == {200, 400, 404, 500}

\* how the fetch of the client settles
ClientReplies ==
    {[kind |-> "reject", message |-> "Failed to fetch"]}
    \cup {[kind |-> "resolve",
           response |-> [status |-> st, statusText |-> StatusText(st),
                         text |-> t]] :
          st \in ClientStatuses, t \in ClientTexts}

(***************************************************************************)
(* The state machine.                                                      *)
(***************************************************************************)
\* no dispatch is under way
ServerOff ==
    /\ body = [prompt |-> Undefined, provider |-> Undefined]
    /\ env = [n \in EnvNames |-> Undefined]
    /\ pc = "off"
    /\ providersToTry = <<>>
    /\ idx = 0
    /\ cur = ""
    /\ mi = 0
    /\ inflight = FALSE
    /\ result = Null
    /\ lastError = Null
    /\ responses = <<>>
    /\ invoked = <<>>
    /\ calls = <<>>
    /\ answered = Undefined

\* no adapter is called on its own
AdapterOff ==
    /\ aProvider = ""
    /\ aState = "off"
    /\ aPos = 0
    /\ aRequests = <<>>
    /\ aReplies = <<>>
    /\ aValue = Null

\* no client call is made
ClientOff ==
    /\ inFlight = FALSE
    /\ cState = <<>>
    /\ cResponse = <<>>
    /\ cValue = <<>>
    /\ fetches = <<>>

Init ==
    /\ AdapterOff
    /\ ClientOff
    /\ body \in [prompt : Prompts, provider : Preferences]
    /\ env \in Environments
    /\ pc = "received"
    /\ providersToTry = <<>>
    /\ idx = 0
    /\ cur = ""
    /\ mi = 0
    /\ inflight = {}
    /\ result = Null
    /\ lastError = Null
    /\ responses = <<>>
    /\ invoked = <<>>
    /\ calls = <<>>
    /\ answered = Null

\* The handler from its entry to its first awaited vendor call or response.
Generate ==
    /\ pc = "received"
    /\ LET prompt == body.prompt
           provider == ProviderOf(body)
           sel == SelectProviders(provider)
       IN
       IF MissingPrompt(prompt)
       THEN /\ Send(400, [error |-> "Missing prompt in request body"])
            /\ UNCHANGED <<providersToTry, idx, cur, mi, inflight, result,
                           lastError, invoked, calls, answered>>
       ELSE IF ~IsString(prompt)
       THEN /\ Unexpected("prompt.substring is not a function")
            /\ UNCHANGED <<providersToTry, idx, cur, mi, inflight, result,
                           lastError, invoked, calls, answered>>
       ELSE IF sel.kind = "throw"
       THEN /\ Unexpected(sel.message)
            /\ UNCHANGED <<providersToTry, idx, cur, mi, inflight, result,
                           lastError, invoked, calls, answered>>
       ELSE /\ providersToTry' = sel.list
            /\ Loop(sel.list, 1, Null, {}, Null)
            /\ UNCHANGED answered
    /\ UNCHANGED <<body, env, adapterVars, clientVars>>

\* The awaited call of the running adapter settles with reply; the handler
\* runs on to the next awaited call or to the response.
Settle(provider) ==
    /\ pc = "await"
    /\ cur = provider
    /\ \E reply \in Replies(provider) :
         LET step == AdapterStep(provider, mi, reply)
             pending == inflight \ {Call(provider, mi)}
         IN CASE step.kind = "return" -> OnReturn(step, ReplyText(reply), pending)
              [] step.kind = "throw" -> OnThrow(step.message, pending)
              [] step.kind = "next" -> OnNext(pending)
    /\ UNCHANGED <<body, env, providersToTry, adapterVars, clientVars>>

GroqSettle == Settle("groq")
OpenaiSettle == Settle("openai")
GeminiSettle == Settle("gemini")
ClaudeSettle == Settle("claude")

Next == Generate \/ GroqSettle \/ OpenaiSettle \/ GeminiSettle \/ ClaudeSettle

Spec == Init /\ [][Next]_vars

\* the environments in which each vendor has its credential under its first
\* name or has none
FairEnvironments ==
    {e \in Environments :
        /\ \A n \in EnvNames : e[n] # Str("")
        /\ e["BARD_API_KEY"] = Undefined
        /\ e["CLAUDE_API_KEY"] = Undefined}

FairInit == Init /\ env \in FairEnvironments

\* The dispatch where the handler runs once the request is received and
\* every outbound call settles: the awaited promise resolves or rejects.
FairSpec ==
    /\ FairInit
    /\ [][Next]_vars
    /\ WF_vars(Generate)
    /\ WF_vars(GroqSettle)
    /\ WF_vars(OpenaiSettle)
    /\ WF_vars(GeminiSettle)
    /\ WF_vars(ClaudeSettle)

(***************************************************************************)
(* An adapter on its own: one call of aiProviders[aProvider](prompt,       *)
(* apiKey), the vendor answering each request in any of Replies.           *)
(***************************************************************************)
AdapterInit ==
    /\ ServerOff
    /\ ClientOff
    /\ aProvider \in Adapters
    /\ aState = "idle"
    /\ aPos = 0
    /\ aRequests = <<>>
    /\ aReplies = <<>>
    /\ aValue = Null

\* the adapter is called and requests its first model
AdapterInvoke ==
    /\ aState = "idle"
    /\ aState' = "awaiting"
    /\ aPos' = 1
    /\ aRequests' = <<ModelsToTry(aProvider)[1]>>
    /\ UNCHANGED <<aProvider, aReplies, aValue, serverVars, clientVars>>

\* the awaited request settles with reply; the adapter returns, throws or
\* requests its next model
AdapterSettle ==
    /\ aState = "awaiting"
    /\ \E reply \in Replies(aProvider) :
         LET step == AdapterStep(aProvider, aPos, reply) IN
         /\ aReplies' = Append(aReplies, reply)
         /\ CASE step.kind = "return" ->
                    /\ aState' = "returned"
                    /\ aValue' = [text |-> step.text, model |-> step.model,
                                  provider |-> step.provider]
                    /\ UNCHANGED <<aPos, aRequests>>
              [] step.kind = "throw" ->
                    /\ aState' = "threw"
                    /\ aValue' = Str(step.message)
                    /\ UNCHANGED <<aPos, aRequests>>
              [] step.kind = "next" ->
                    /\ aPos' = aPos + 1
                    /\ aRequests' = Append(aRequests,
                                           ModelsToTry(aProvider)[aPos + 1])
                    /\ UNCHANGED <<aState, aValue>>
    /\ UNCHANGED <<aProvider, serverVars, clientVars>>

AdapterNext == AdapterInvoke \/ AdapterSettle

AdapterSpec == AdapterInit /\ [][AdapterNext]_vars

(***************************************************************************)
(* The client on its own: up to MaxClientCalls calls of                    *)
(* generatePostWithGemini, issued at any moment, against a server that     *)
(* answers in any of ClientReplies.                                        *)
(***************************************************************************)
\* the calls the page will make have not been made
ClientIdle ==
    /\ inFlight = FALSE
    /\ cState = [c \in 1..MaxClientCalls |-> "idle"]
    /\ cResponse = [c \in 1..MaxClientCalls |-> Null]
    /\ cValue = [c \in 1..MaxClientCalls |-> Undefined]
    /\ fetches = <<>>

ClientInit ==
    /\ ServerOff
    /\ AdapterOff
    /\ ClientIdle

\* the next call of generatePostWithGemini(prompt, provider) is made
ClientCall ==
    \E c \in 1..MaxClientCalls :
        /\ cState[c] = "idle"
        /\ \A d \in 1..(c - 1) : cState[d] # "idle"
        /\ \E prompt \in ClientPrompts, provider \in ClientProviders :
             ClientEnter(c, prompt, provider)
        /\ UNCHANGED <<cResponse, serverVars, adapterVars>>

\* the fetch of a call settles
ClientFetchSettle ==
    \E c \in 1..MaxClientCalls :
        /\ cState[c] = "fetching"
        /\ \E reply \in ClientReplies : ClientFetched(c, reply)
        /\ UNCHANGED <<fetches, serverVars, adapterVars>>

\* `await response.text()` settles: the body is read or the stream fails
ClientBodySettle ==
    \E c \in 1..MaxClientCalls :
        /\ cState[c] = "reading"
        /\ \/ ClientRead(c, cResponse[c])
           \/ ClientThrow(c, "body stream lost")
        /\ cResponse' = [cResponse EXCEPT ![c] = Null]
        /\ UNCHANGED <<fetches, serverVars, adapterVars>>

ClientNext == ClientCall \/ ClientFetchSettle \/ ClientBodySettle

ClientSpec == ClientInit /\ [][ClientNext]_vars

(***************************************************************************)
(* Vocabulary of the properties.                                           *)
(***************************************************************************)
Done == pc = "done"

Sent(status) == \E i \in DOMAIN responses : responses[i].status = status

\* the text inside the success envelope
TextOf(b) == b.candidates[1].content.parts[1].text

\* the providers of a history of invocations or calls, in order
ProvidersIn(h) == [i \in DOMAIN h |-> h[i].provider]

Last(h) == h[Len(h)]

\* the prompt passes validation and is a string: the provider loop is reached
\* unless the preference is no string
ValidPrompt == IsString(body.prompt) /\ body.prompt.s # ""

\* the environment names a vendor accepts its credential under
AcceptedNames(name) ==
    CASE name = "groq" -> {"GROQ_API_KEY"}
      [] name = "openai" -> {"OPENAI_API_KEY"}
      [] name = "gemini" -> {"GEMINI_API_KEY", "BARD_API_KEY"}
      [] name = "claude" -> {"ANTHROPIC_API_KEY", "CLAUDE_API_KEY"}
      [] OTHER -> {}

\* some accepted name of the vendor holds a non-empty string
HasCredential(name) ==
    \E n \in AcceptedNames(name) : env[n].t = "string" /\ env[n].s # ""

RECURSIVE Configured(_)
\* the candidates of a list that have a credential, in order
Configured(list) ==
    IF list = <<>> THEN <<>>
    ELSE IF HasCredential(Head(list))
         THEN <<Head(list)>> \o Configured(Tail(list))
         ELSE Configured(Tail(list))

\* the candidates the provider loop has gone through
Visited ==
    SubSeq(providersToTry, 1,
           IF idx > Len(providersToTry) THEN Len(providersToTry) ELSE idx)

\* the position of a vendor in the priority chain
ChainRank(name) ==
    CASE name = "groq" -> 1
      [] name = "openai" -> 2
      [] name = "gemini" -> 3
      [] name = "claude" -> 4

\* the messages adapter `provider` can throw when its attempt m settles
ThrowMessages(provider, m) ==
    {AdapterStep(provider, m, r).message :
        r \in {q \in Replies(provider) : AdapterStep(provider, m, q).kind = "throw"}}

\* the positions after idx of the candidates that have a credential
LaterConfigured ==
    {j \in (idx + 1)..Len(providersToTry) : HasCredential(providersToTry[j])}

Min(S) == CHOOSE x \in S : \A y \in S : x <= y

\* the text of the exhaustion failure around the error message
FailurePrefix == "Failed to generate content. Error: "
FailureSuffix ==
    ". Please ensure at least one AI API key is configured in your .env file (GROQ_API_KEY, OPENAI_API_KEY, GEMINI_API_KEY, or ANTHROPIC_API_KEY)."

\* the preferences that name a vendor, and the vendor each names
NamedVendor(preference) ==
    CASE preference = Str("groq") -> "groq"
      [] preference = Str("GROQ") -> "groq"
      [] preference = Str("openai") -> "openai"
      [] preference = Str("Gemini") -> "gemini"
      [] preference = Str("claude") -> "claude"

NamedPreferences ==
    {Str("groq"), Str("GROQ"), Str("openai"), Str("Gemini"), Str("claude")}

\* the environment names of a vendor in the order the claim reads them
NameOrder(name) ==
    CASE name = "groq" -> <<"GROQ_API_KEY">>
      [] name = "openai" -> <<"OPENAI_API_KEY">>
      [] name = "gemini" -> <<"GEMINI_API_KEY", "BARD_API_KEY">>
      [] name = "claude" -> <<"ANTHROPIC_API_KEY", "CLAUDE_API_KEY">>

\* the name is unset or holds the empty string
EmptyName(n) == env[n] \in {Undefined, Str("")}

RECURSIVE FirstNonEmpty(_)
\* the value of the first of the names that is not empty
FirstNonEmpty(names) ==
    IF names = <<>> THEN Undefined
    ELSE IF ~EmptyName(Head(names)) THEN env[Head(names)]
    ELSE FirstNonEmpty(Tail(names))

\* the adapters with a list of models
MultiModel == {"groq", "openai", "gemini"}

\* the reply is an error: a rejected call or a response that is not 2xx
IsError(reply) ==
    reply.kind = "reject" \/ (reply.kind = "response" /\ ~Ok(reply.status))

\* the message an error reply carries
ErrorText(reply) ==
    IF reply.kind = "reject" THEN reply.message
    ELSE IF IsString(reply.body.message) THEN reply.body.message.s
    ELSE ""

\* a model-unavailable error in the words of the claims: a 404 status, the
\* 'model not found' error code, or a message containing 'model' or '404'
ModelUnavailable(provider, reply) ==
    /\ IsError(reply)
    /\ \/ reply.kind = "response" /\ reply.status = 404
       \/ reply.kind = "response" /\ reply.body.code = Str("model_not_found")
       \/ Includes(ErrorText(reply), "model")
       \/ Includes(ErrorText(reply), "404")

\* the same, but for openai a message counts only when it contains
\* 'model_not_found' or '404'
ModelUnavailableByVendor(provider, reply) ==
    IF provider = "openai"
    THEN /\ IsError(reply)
         /\ \/ reply.kind = "response" /\ reply.status = 404
            \/ reply.kind = "response" /\ reply.body.code = Str("model_not_found")
            \/ Includes(ErrorText(reply), "model_not_found")
            \/ Includes(ErrorText(reply), "404")
    ELSE ModelUnavailable(provider, reply)

\* any other error
Fatal(provider, reply) ==
    IsError(reply) /\ ~ModelUnavailable(provider, reply)

FatalByVendor(provider, reply) ==
    IsError(reply) /\ ~ModelUnavailableByVendor(provider, reply)

\* the reply is no error and holds text that is not empty when trimmed
ValidText(reply) ==
    /\ ~IsError(reply)
    /\ IsString(ReplyText(reply))
    /\ Trim(ReplyText(reply).s) # ""

\* the terminal error of a multi-model adapter
AllFailedText(provider) ==
    CASE provider = "groq" -> "All Groq models failed"
      [] provider = "openai" -> "All OpenAI models failed"
      [] provider = "gemini" -> "All Gemini models failed"

\* Fallback to the first model that answers, for a reading U of "model
\* unavailable": while every attempt so far failed with such an error and
\* models are left, the next model has been requested; and when the attempt
\* after N such failures gives valid text, the adapter has returned that
\* text trimmed and the name of that model, having requested models 1..N+1
\* and no other.
FallbackReturnsFirstSuccess(U(_, _)) ==
    aProvider \in MultiModel =>
        LET models == ModelsToTry(aProvider)
            k == Len(aReplies)
        IN  /\ \A N \in 1..k :
                  /\ N < Len(models)
                  /\ \A i \in 1..N : U(aProvider, aReplies[i])
                  => Len(aRequests) >= N + 1
            /\ \A N \in 0..(k - 1) :
                  /\ \A i \in 1..N : U(aProvider, aReplies[i])
                  /\ ValidText(aReplies[N + 1])
                  => /\ aState = "returned"
                     /\ aValue = [text |-> Trim(ReplyText(aReplies[N + 1]).s),
                                  model |-> models[N + 1],
                                  provider |-> aProvider]
                     /\ aRequests = SubSeq(models, 1, N + 1)
                     /\ k = N + 1

\* Exhaustion, for a reading F of "fatal error": once every model was
\* requested in list order and no reply held text or was a fatal error, the
\* adapter has thrown its 'All <vendor> models failed'; whatever it returns
\* holds trimmed text that is not empty; and it ends only by returning a
\* result or throwing an error.
ExhaustionRaisesAllFailed(F(_, _)) ==
    aProvider \in MultiModel =>
        LET models == ModelsToTry(aProvider) IN
        /\ /\ Len(aReplies) = Len(models)
           /\ aRequests = models
           /\ \A i \in DOMAIN aReplies :
                 ~ValidText(aReplies[i]) /\ ~F(aProvider, aReplies[i])
           => /\ aState = "threw"
              /\ aValue = Str(AllFailedText(aProvider))
        /\ aState = "returned" =>
              /\ aValue.provider = aProvider
              /\ aValue.text # ""
              /\ Trim(aValue.text) = aValue.text
        /\ aState = "threw" => IsString(aValue) /\ aValue.s # ""
        /\ aState = "awaiting" => Len(aRequests) = Len(aReplies) + 1
        /\ aState \in {"idle", "awaiting", "returned", "threw"}

\* the outbound calls made to a vendor, in order
CallsTo(v) == SelectSeq(calls, LAMBDA call : call.provider = v)

\* the preferences that differ from 'auto' in letter case only
AutoInOtherCase ==
    {p \in Preferences :
        IsString(p) /\ p # Str("auto") /\ ToLowerCase(p.s) = "auto"}

\* the client call has been accepted and has not settled
Pending(c) == cState[c] \in {"fetching", "reading"}

\* the client calls that issued a fetch, in order
Fetchers == [i \in DOMAIN fetches |-> fetches[i].call]

(***************************************************************************)
(* C1: a dispatch that completes has sent exactly one response, and that   *)
(* response is a success (200) or a terminal failure (400 or 500); a       *)
(* dispatch that has not completed has sent none.  So no dispatch sends a  *)
(* success with a failure, or two successes.                               *)
(***************************************************************************)
C1_ExactlyOneResponse ==
    /\ Done => Len(responses) = 1
    /\ ~Done => responses = <<>>
    /\ \A i \in DOMAIN responses : responses[i].status \in {200, 400, 500}
    /\ ~(Sent(200) /\ (Sent(400) \/ Sent(500)))

\* a success sent after an earlier candidate failed
C1_Witness ==
    /\ Done
    /\ Len(responses) = 1
    /\ responses[1].status = 200
    /\ Len(invoked) >= 2
    /\ lastError # Null

(***************************************************************************)
(* C2: a success response ends the dispatch at the candidate whose adapter *)
(* returned: that adapter is the last one invoked, its request is the last *)
(* outbound call, nothing is in flight, and the response carries the       *)
(* trimmed text of the vendor's reply, the provider name and the model     *)
(* name of that attempt.                                                   *)
(***************************************************************************)
C2_StopsAtFirstSuccess ==
    \A i \in DOMAIN responses :
        responses[i].status = 200 =>
            /\ Done
            /\ inflight = {}
            /\ answered # Null
            /\ Last(invoked).provider = answered.provider
            /\ Last(calls) = [provider |-> answered.provider, model |-> answered.model]
            /\ idx \in DOMAIN providersToTry
            /\ providersToTry[idx] = answered.provider
            /\ responses[i].body.provider = answered.provider
            /\ responses[i].body.model = answered.model
            /\ TextOf(responses[i].body) = Trim(answered.text.s)

\* groq answers while openai, the next candidate, has a credential
C2_Witness ==
    /\ Done
    /\ Sent(200)
    /\ providersToTry = PriorityChain
    /\ responses[1].body.provider = "groq"
    /\ responses[1].body.model = "llama-3.1-70b-versatile"
    /\ HasCredential("openai")
    /\ answered.text = Str(" Hi there\n")

(***************************************************************************)
(* C3: the adapters invoked are exactly the visited candidates that have a *)
(* credential, in order, each with its non-empty credential; a candidate   *)
(* without one is passed over without an error being recorded and without  *)
(* ending the dispatch, so a later candidate that has a credential and     *)
(* succeeds gives the response its provider name.                          *)
(***************************************************************************)
C3_CredentialGuardsInvocation ==
    /\ \A i \in DOMAIN invoked :
          /\ invoked[i].apiKey.t = "string"
          /\ invoked[i].apiKey.s # ""
          /\ \E n \in AcceptedNames(invoked[i].provider) : env[n] = invoked[i].apiKey
    /\ ProvidersIn(invoked) = Configured(Visited)
    /\ invoked = <<>> => lastError = Null
    /\ Sent(200) => responses[1].body.provider = Last(Configured(Visited))

\* groq has no credential, openai has one and answers
C3_Witness ==
    /\ Done
    /\ Sent(200)
    /\ providersToTry = PriorityChain
    /\ ~HasCredential("groq")
    /\ env["GROQ_API_KEY"] = Str("")
    /\ responses[1].body.provider = "openai"
    /\ lastError = Null

(***************************************************************************)
(* C4: for a missing or empty prompt the dispatch answers 400 with         *)
(* 'Missing prompt in request body' and no adapter is invoked and no       *)
(* outbound call is made, whatever the preference and the credentials.     *)
(***************************************************************************)
C4_MissingPromptNoCalls ==
    body.prompt \in {Undefined, Null, Str("")} =>
        /\ calls = <<>>
        /\ invoked = <<>>
        /\ inflight = {}
        /\ Done => responses = <<[status |-> 400,
                                  body |-> [error |-> "Missing prompt in request body"]]>>

\* an empty prompt rejected although every vendor is configured
C4_Witness ==
    /\ Done
    /\ body.prompt = Str("")
    /\ body.provider = Str("auto")
    /\ \A v \in Adapters : HasCredential(v)
    /\ Sent(400)

(***************************************************************************)
(* C5: with no preference or the preference 'auto' the candidates are      *)
(* groq, openai, gemini, claude in this order and are tried one after the  *)
(* other: adapters are invoked and calls are issued in chain order, a      *)
(* second adapter is invoked only after an earlier one failed, and at most *)
(* one outbound call, the last one issued, is in flight.                   *)
(***************************************************************************)
C5_AutoChainSequential ==
    /\ Cardinality(inflight) <= 1
    /\ ((body.provider = Undefined \/ body.provider = Str("auto"))
            /\ ValidPrompt /\ pc # "received") =>
        /\ providersToTry = <<"groq", "openai", "gemini", "claude">>
        /\ \A i, j \in DOMAIN invoked :
              i < j => ChainRank(invoked[i].provider) < ChainRank(invoked[j].provider)
        /\ \A i, j \in DOMAIN calls :
              i < j => ChainRank(calls[i].provider) <= ChainRank(calls[j].provider)
        /\ Len(invoked) >= 2 => lastError # Null
        /\ pc = "await" => inflight = {Last(calls)}
        /\ Done => inflight = {}

\* gemini's second model is requested after groq and openai failed
C5_Witness ==
    /\ body.provider = Undefined
    /\ pc = "await"
    /\ ProvidersIn(invoked) = <<"groq", "openai", "gemini">>
    /\ inflight = {[provider |-> "gemini", model |-> "gemini-1.5-flash-latest"]}
    /\ Len(calls) >= 4

(***************************************************************************)
(* C6: when the running adapter throws, the handler records the thrown     *)
(* message as the last error and goes on: the next candidate that has a    *)
(* credential is invoked, and only if there is none the dispatch ends,     *)
(* with the failure response.                                              *)
(***************************************************************************)
C6_AdapterErrorAdvances ==
    [][(pc = "await" /\ (idx' # idx \/ lastError' # lastError)) =>
          /\ lastError' \in {Str(m) : m \in ThrowMessages(cur, mi)}
          /\ IF LaterConfigured # {}
             THEN /\ pc' = "await"
                  /\ idx' = Min(LaterConfigured)
                  /\ cur' = providersToTry[idx']
                  /\ invoked' = Append(invoked, [provider |-> cur',
                                                 apiKey |-> Last(invoked').apiKey])
                  /\ responses' = <<>>
             ELSE /\ pc' = "done"
                  /\ Len(responses') = 1
                  /\ responses'[1].status = 500]_vars

\* groq threw a fatal error, openai was passed over, gemini is running
C6_Witness ==
    /\ pc = "await"
    /\ lastError = Str("Invalid API Key")
    /\ ProvidersIn(invoked) = <<"groq", "gemini">>
    /\ cur = "gemini"

(***************************************************************************)
(* C7: a dispatch whose provider loop ends without a success answers 500   *)
(* with the failure text around the message thrown by the last adapter     *)
(* invoked, or around 'All providers failed' if no adapter was invoked.    *)
(***************************************************************************)
C7_ExhaustionCarriesLastError ==
    (Done /\ ~Sent(200) /\ providersToTry # <<>>) =>
        /\ invoked # <<>> =>
              /\ lastError # Null
              /\ \E m \in DOMAIN ModelsToTry(Last(invoked).provider) :
                    lastError.s \in ThrowMessages(Last(invoked).provider, m)
        /\ responses =
              <<[status |-> 500,
                 body |-> [error |-> FailurePrefix
                                     \o (IF invoked = <<>> THEN "All providers failed"
                                         ELSE lastError.s)
                                     \o FailureSuffix]]>>

\* groq failed, the three later candidates had no credential
C7_Witness ==
    /\ Done
    /\ providersToTry = PriorityChain
    /\ ProvidersIn(invoked) = <<"groq">>
    /\ idx = 5
    /\ responses[1].status = 500
    /\ responses[1].body.error = FailurePrefix \o "All Groq models failed" \o FailureSuffix

(***************************************************************************)
(* C8: a preference that names no known provider gives a dispatch that     *)
(* invokes no adapter, makes no outbound call and answers 500 with the     *)
(* generic failure text, whatever credentials are configured.              *)
(***************************************************************************)
C8_UnknownProviderExhausts ==
    (body.provider = Str("bard") /\ ValidPrompt /\ pc # "received") =>
        /\ invoked = <<>>
        /\ calls = <<>>
        /\ inflight = {}
        /\ responses =
              <<[status |-> 500,
                 body |-> [error |-> FailurePrefix \o "All providers failed" \o FailureSuffix]]>>

\* the unknown name fails although every vendor is configured
C8_Witness ==
    /\ Done
    /\ body.provider = Str("bard")
    /\ ValidPrompt
    /\ \A v \in Adapters : HasCredential(v)
    /\ Sent(500)

(***************************************************************************)
(* C9: a preference that names a vendor, in any letter case, makes that    *)
(* vendor the only candidate: no other adapter is invoked or called, and   *)
(* without a credential or on failure the dispatch ends with the 500       *)
(* failure, whatever other vendors are configured.  The client's default   *)
(* request is of this kind: it names groq.                                 *)
(***************************************************************************)
C9_NamedProviderOnly ==
    (body.provider \in NamedPreferences /\ ValidPrompt /\ pc # "received") =>
        LET v == NamedVendor(body.provider) IN
        /\ providersToTry = <<v>>
        /\ Len(invoked) <= 1
        /\ \A i \in DOMAIN invoked : invoked[i].provider = v
        /\ \A i \in DOMAIN calls : calls[i].provider = v
        /\ ~HasCredential(v) => Done /\ invoked = <<>>
        /\ Done => \/ /\ Sent(200)
                      /\ responses[1].body.provider = v
                      /\ lastError = Null
                   \/ /\ Sent(500)
                      /\ HasCredential(v) => lastError # Null
        /\ body = ClientRequestBody(body.prompt, Undefined) => v = "groq"

\* 'GROQ' fails for lack of a groq credential although openai is configured
C9_Witness ==
    /\ Done
    /\ body.provider = Str("GROQ")
    /\ ValidPrompt
    /\ ~HasCredential("groq")
    /\ HasCredential("openai")
    /\ HasCredential("gemini")
    /\ Sent(500)
    /\ invoked = <<>>

(***************************************************************************)
(* C10: the text of every success response is trimmed and not empty.       *)
(***************************************************************************)
C10_SuccessTextNonEmpty ==
    \A i \in DOMAIN responses :
        responses[i].status = 200 =>
            /\ TextOf(responses[i].body) # ""
            /\ Trim(TextOf(responses[i].body)) = TextOf(responses[i].body)

(***************************************************************************)
(* C11: at most one client call is pending at any time, and a client call  *)
(* made while another is pending is rejected at once with the 'please      *)
(* wait' error and issues no fetch.                                        *)
(***************************************************************************)
C11_SingleFlight ==
    /\ [](Cardinality({c \in 1..MaxClientCalls : Pending(c)}) <= 1)
    /\ [][\A c \in 1..MaxClientCalls :
            /\ cState[c] = "idle"
            /\ cState'[c] # "idle"
            /\ \E d \in 1..MaxClientCalls : Pending(d)
            => /\ cState'[c] = "rejected"
               /\ cValue'[c] = PleaseWait
               /\ fetches' = fetches]_vars

\* two calls made while the first is fetching are both rejected, and the
\* first is the only one that issued a fetch
C11_Witness ==
    /\ cState = <<"fetching", "rejected", "rejected">>
    /\ cValue[2] = PleaseWait
    /\ cValue[3] = PleaseWait
    /\ Fetchers = <<1>>

(***************************************************************************)
(* C12: the in-flight flag is set exactly while an accepted client call is *)
(* pending: it is set when the fetch is issued and is clear once the call  *)
(* has settled, however it settled; and a call made while no call is       *)
(* pending is not refused.                                                 *)
(***************************************************************************)
C12_FlagFollowsPendingCall ==
    /\ [](inFlight <=> \E c \in 1..MaxClientCalls : Pending(c))
    /\ [][\A c \in 1..MaxClientCalls :
            /\ cState[c] = "idle"
            /\ cState'[c] # "idle"
            /\ \A d \in 1..MaxClientCalls : ~Pending(d)
            => /\ cState'[c] = "rejected" => cValue'[c] # PleaseWait
               /\ cState'[c] = "fetching" => inFlight' /\ fetches' # fetches
               /\ cState'[c] # "fetching" => ~inFlight']_vars

\* after a call that failed on an unparsable body and a call that failed
\* before its fetch, the third call is accepted
C12_Witness ==
    /\ cState = <<"rejected", "rejected", "fetching">>
    /\ cValue[1] = "Invalid response from server"
    /\ cValue[2] = SubstringError(Undefined)
    /\ Fetchers = <<1, 3>>
    /\ inFlight

(***************************************************************************)
(* C13: an adapter is invoked with the value of the first of its vendor's  *)
(* environment names that is not empty (GEMINI_API_KEY before              *)
(* BARD_API_KEY, ANTHROPIC_API_KEY before CLAUDE_API_KEY, the one name of  *)
(* groq and of openai), and a visited vendor goes uninvoked exactly when   *)
(* every one of its names is unset or empty.                               *)
(***************************************************************************)
C13_FirstNonEmptyName ==
    /\ \A i \in DOMAIN invoked :
          invoked[i].apiKey = FirstNonEmpty(NameOrder(invoked[i].provider))
    /\ \A j \in DOMAIN Visited :
          Visited[j] \in Adapters =>
             ((\A i \in DOMAIN invoked : invoked[i].provider # Visited[j])
              <=> \A k \in DOMAIN NameOrder(Visited[j]) :
                     EmptyName(NameOrder(Visited[j])[k]))

\* GEMINI_API_KEY is set to the empty string and BARD_API_KEY to a secret:
\* gemini is invoked with the value of BARD_API_KEY; claude, with both of
\* its names set, is invoked with the value of ANTHROPIC_API_KEY
C13_Witness ==
    /\ env["GEMINI_API_KEY"] = Str("")
    /\ env["BARD_API_KEY"] = Str("secret:BARD_API_KEY")
    /\ env["ANTHROPIC_API_KEY"] = Str("secret:ANTHROPIC_API_KEY")
    /\ env["CLAUDE_API_KEY"] = Str("secret:CLAUDE_API_KEY")
    /\ \E i, j \in DOMAIN invoked :
          /\ invoked[i] = [provider |-> "gemini", apiKey |-> env["BARD_API_KEY"]]
          /\ invoked[j] = [provider |-> "claude", apiKey |-> env["ANTHROPIC_API_KEY"]]

(***************************************************************************)
(* C14: a prompt that is truthy and no string, or a preference that is     *)
(* truthy and no string, makes the handler throw outside any adapter call; *)
(* the dispatch then ends with exactly one response, 500 with the text of  *)
(* the error, and no adapter is invoked.                                   *)
(***************************************************************************)
C14_UnexpectedErrorIs500 ==
    LET promptThrows == Truthy(body.prompt) /\ ~IsString(body.prompt)
        providerThrows == /\ ValidPrompt
                          /\ Truthy(ProviderOf(body))
                          /\ ~IsString(ProviderOf(body))
    IN  /\ promptThrows /\ pc # "received" =>
            /\ Done
            /\ responses = <<[status |-> 500,
                              body |-> [error |-> "prompt.substring is not a function"]]>>
            /\ invoked = <<>> /\ calls = <<>>
        /\ providerThrows /\ pc # "received" =>
            /\ Done
            /\ responses = <<[status |-> 500,
                              body |-> [error |-> "provider.toLowerCase is not a function"]]>>
            /\ invoked = <<>> /\ calls = <<>>

\* a numeric preference with a valid prompt and every credential set
C14_Witness ==
    /\ Done
    /\ body = [prompt |-> Str("Write a post"), provider |-> Num(1)]
    /\ \A v \in Adapters : HasCredential(v)
    /\ Sent(500)
    /\ responses[1].body.error = "provider.toLowerCase is not a function"

(***************************************************************************)
(* C15: in a multi-model adapter an attempt that fails with an error that  *)
(* is no model-unavailable signal makes the adapter throw at once: that    *)
(* attempt is its last and no further model is requested.                  *)
(***************************************************************************)
C15_FatalErrorPropagates ==
    aProvider \in MultiModel =>
        \A i \in DOMAIN aReplies :
            Fatal(aProvider, aReplies[i]) =>
                /\ aState = "threw"
                /\ Len(aReplies) = i
                /\ Len(aRequests) = i

(***************************************************************************)
(* C16: in a multi-model adapter, after N attempts that failed with a      *)
(* model-unavailable error (a 404 status, the 'model not found' code, or a *)
(* message containing 'model' or '404') the adapter requests model N+1,    *)
(* and when that attempt gives valid text the adapter returns its trimmed  *)
(* text and its model name and requests no later model.                    *)
(***************************************************************************)
C16_FallbackOnUnavailable == FallbackReturnsFirstSuccess(ModelUnavailable)

(***************************************************************************)
(* C16, amended: the same, where for openai a message marks the model as   *)
(* unavailable only when it contains 'model_not_found' or '404'.           *)
(***************************************************************************)
C16_FallbackOnVendorSignal ==
    FallbackReturnsFirstSuccess(ModelUnavailableByVendor)

\* openai: a 404 and a 'model_not_found' error, then text from the third
\* model
C16_Witness ==
    /\ aProvider = "openai"
    /\ aState = "returned"
    /\ Len(aReplies) = 3
    /\ aReplies[1].kind = "response" /\ aReplies[1].status = 404
    /\ aReplies[2].kind = "response" /\ aReplies[2].status = 401
    /\ aReplies[2].body.code = Str("model_not_found")
    /\ aReplies[3].body.content = Str(" Hi there\n")
    /\ aValue = [text |-> "Hi there", model |-> "gpt-4-turbo-preview",
                 provider |-> "openai"]

(***************************************************************************)
(* C17: a multi-model adapter all of whose models were tried in order, no  *)
(* attempt giving text and none failing with a fatal error (an error that  *)
(* is no model-unavailable signal), throws 'All <vendor> models failed';   *)
(* it never returns empty text and never ends without result or error.     *)
(***************************************************************************)
C17_ExhaustionAllFailed == ExhaustionRaisesAllFailed(Fatal)

(***************************************************************************)
(* C17, amended: the same, where for openai an error whose message         *)
(* contains 'model' but neither 'model_not_found' nor '404' is fatal.      *)
(***************************************************************************)
C17_ExhaustionByVendorSignal == ExhaustionRaisesAllFailed(FatalByVendor)

\* gemini: six models tried, the replies empty, white space or errors
C17_Witness ==
    /\ aProvider = "gemini"
    /\ aState = "threw"
    /\ aRequests = GeminiModels
    /\ aValue = Str("All Gemini models failed")
    /\ \E i, j \in DOMAIN aReplies :
          /\ aReplies[i] = [kind |-> "resolve", content |-> Str(" \n")]
          /\ aReplies[j] = [kind |-> "reject", message |-> "404 Not Found"]

(***************************************************************************)
(* C19: the claude adapter makes one request and no second one; a reply    *)
(* that is not 2xx, a rejected request, or a reply without text or with    *)
(* empty text makes it throw.                                              *)
(***************************************************************************)
C19_ClaudeSingleAttempt ==
    aProvider = "claude" =>
        /\ Len(aRequests) <= 1
        /\ Len(aReplies) <= 1
        /\ aState # "idle" => aRequests = ClaudeModels
        /\ aState = "awaiting" <=> Len(aRequests) = 1 /\ aReplies = <<>>
        /\ \A i \in DOMAIN aReplies :
              \/ IsError(aReplies[i])
              \/ ReplyText(aReplies[i]) \in {Undefined, Str("")}
              => aState = "threw"

\* the vendor answers 200 with empty text
C19_Witness ==
    /\ aProvider = "claude"
    /\ aRequests = ClaudeModels
    /\ Len(aReplies) = 1
    /\ aReplies[1].kind = "response"
    /\ aReplies[1].status = 200
    /\ aReplies[1].body.content = Str("")
    /\ aState = "threw"
    /\ aValue = Str("No response from Claude")

(***************************************************************************)
(* C18: in one dispatch no adapter is invoked twice and no model is        *)
(* requested twice: the calls to a vendor are the first models of its list *)
(* in list order.  There are at most 14 outbound calls (4 groq, 3 openai,  *)
(* 6 gemini, 1 claude), and when the preference names a vendor at most as  *)
(* many as that vendor has models, all of them to that vendor.             *)
(***************************************************************************)
C18_NothingReattempted ==
    /\ \A i, j \in DOMAIN invoked :
          i # j => invoked[i].provider # invoked[j].provider
    /\ \A i, j \in DOMAIN calls : i # j => calls[i] # calls[j]
    /\ \A v \in Adapters :
          /\ Len(CallsTo(v)) <= Len(ModelsToTry(v))
          /\ \A i \in DOMAIN CallsTo(v) :
                CallsTo(v)[i].model = ModelsToTry(v)[i]
    /\ \A i \in DOMAIN calls : calls[i].provider \in Adapters
    /\ <<Len(GroqModels), Len(OpenaiModels), Len(GeminiModels),
         Len(ClaudeModels)>> = <<4, 3, 6, 1>>
    /\ Len(calls) <= 14
    /\ body.provider \in NamedPreferences =>
          /\ Len(calls) <= Len(ModelsToTry(NamedVendor(body.provider)))
          /\ \A i \in DOMAIN calls :
                calls[i].provider = NamedVendor(body.provider)

\* every model of every vendor has been requested, each once
C18_Witness ==
    /\ Done
    /\ providersToTry = PriorityChain
    /\ Len(calls) = 14
    /\ ProvidersIn(invoked) = PriorityChain
    /\ \A v \in Adapters : CallsTo(v) = [i \in DOMAIN ModelsToTry(v) |-> Call(v, i)]

(***************************************************************************)
(* C20: when every outbound call settles, the dispatch sends its response: *)
(* from the receipt of the request and from every state in which a call is *)
(* awaited the dispatch reaches its end, with a response sent; and every   *)
(* step either ends the dispatch or moves on to a later candidate or to    *)
(* the next model of the same adapter, never back.                         *)
(***************************************************************************)
C20_DispatchTerminates ==
    /\ <>(Done /\ Len(responses) = 1)
    /\ (pc = "await") ~> (Done /\ Len(responses) = 1)
    /\ [][\/ Done'
          \/ idx' > idx
          \/ idx' = idx /\ cur' = cur /\ mi' = mi + 1]_vars

\* the longest dispatch: thirteen failed attempts, and the fourteenth, of
\* claude, answers
C20_Witness ==
    /\ Done
    /\ Len(calls) = 14
    /\ Sent(200)
    /\ responses[1].body.provider = "claude"

(***************************************************************************)
(* C21: in every state the in-flight flag is true exactly when one client  *)
(* call has passed the guard and has not settled, and that call is the     *)
(* last one that issued a fetch; a call rejected with the 'please wait'    *)
(* error leaves the flag as it was; and the flag goes from true to false   *)
(* only in the step in which the call that set it settles.                 *)
(***************************************************************************)
C21_FlagHeldByAcceptedCall ==
    /\ [](/\ Cardinality({c \in 1..MaxClientCalls : Pending(c)})
                = IF inFlight THEN 1 ELSE 0
          /\ inFlight => fetches # <<>> /\ Pending(Last(fetches).call))
    /\ [][\A c \in 1..MaxClientCalls :
            /\ cState[c] = "idle"
            /\ cState'[c] = "rejected"
            /\ cValue'[c] = PleaseWait
            => /\ inFlight' = inFlight
               /\ \A d \in 1..MaxClientCalls : Pending(d) => cState'[d] = cState[d]]_vars
    /\ [][inFlight /\ ~inFlight' =>
            /\ cState[Last(fetches).call] \in {"fetching", "reading"}
            /\ cState'[Last(fetches).call] \in {"resolved", "rejected"}
            /\ \A d \in 1..MaxClientCalls :
                  d # Last(fetches).call => cState'[d] = cState[d]]_vars

\* the second call is refused while the body of the first is being read,
\* and the flag stays set; the third call has not been made
C21_Witness ==
    /\ cState = <<"reading", "rejected", "idle">>
    /\ cValue[2] = PleaseWait
    /\ Fetchers = <<1>>
    /\ inFlight

(***************************************************************************)
(* C22: a preference that differs from 'auto' in letter case only ('AUTO', *)
(* 'Auto') does not select the priority chain: the single candidate is     *)
(* 'auto', no adapter is invoked, no outbound call is made, and the        *)
(* dispatch ends with the 500 exhaustion failure, whatever credentials are *)
(* configured.  The empty string and null select the priority chain, and   *)
(* the first vendor of it that has a credential is invoked.                *)
(***************************************************************************)
C22_SentinelIsCaseSensitive ==
    /\ AutoInOtherCase = {Str("AUTO"), Str("Auto")}
    /\ (body.provider \in AutoInOtherCase /\ ValidPrompt /\ pc # "received") =>
          /\ providersToTry = <<"auto">>
          /\ Done
          /\ invoked = <<>>
          /\ calls = <<>>
          /\ responses =
                <<[status |-> 500,
                   body |-> [error |-> FailurePrefix \o "All providers failed"
                                       \o FailureSuffix]]>>
    /\ (body.provider \in {Str(""), Null} /\ ValidPrompt /\ pc # "received") =>
          /\ providersToTry = PriorityChain
          /\ Configured(PriorityChain) # <<>> =>
                /\ invoked # <<>>
                /\ invoked[1].provider = Head(Configured(PriorityChain))

\* 'Auto' fails with every vendor configured
C22_Witness ==
    /\ Done
    /\ body = [prompt |-> Str("Write a post"), provider |-> Str("Auto")]
    /\ \A v \in Adapters : HasCredential(v)
    /\ providersToTry = <<"auto">>
    /\ Sent(500)
    /\ invoked = <<>>

====
